---- MODULE Spec2Model ----
(***************************************************************************)
(* Model of the course-build scripts:                                      *)
(*   scripts/build-code-exercises.py   (Markdown challenge parser)         *)
(*   scripts/build_code_challenges.py  (Markdown challenge parser)         *)
(*   scripts/correct_sample_code.py    (retrying remote call + file loop)  *)
(*   scripts/generate_solutions.py     (retrying remote call + file loop)  *)
(*                                                                         *)
(* Text is a sequence of tokens.  Each token stands for a piece of text    *)
(* that the regular expressions of the scripts treat as a unit:            *)
(*   "n"  a newline                                                        *)
(*   "s"  a space                                                          *)
(*   "a"  any other ordinary character                                     *)
(*   "H"  the literal text "## Challenge 1:" (heading marker and number)   *)
(*   "C"  the literal text "Challenge 1:" (what the capture group keeps    *)
(*        of "H": the regex leaves "## " outside the group)                *)
(*   "F"  three backticks                                                  *)
(*   "P"  the word "python"                                                *)
(*   "#"  the literal text "## " (a second-level heading marker); the      *)
(*        documents of the model never end a heading or a body with it     *)
(***************************************************************************)
EXTENDS Integers, Sequences, FiniteSets, TLC

VARIABLES
    script,        \* which script is running
    pc,            \* position of the running script
    content,       \* parser scripts: the Markdown text read from the file
    header,        \* parser scripts: returned header
    results,       \* parser scripts: returned list of sections
    attempt,       \* remote call: the local variable attempt
    requests,      \* remote call: generate_content calls made by this call
    nsleeps,       \* remote call: time.sleep calls made by this call
    slept,         \* remote call: total time slept by this call, in ticks
    callState,     \* remote call: "idle", "running", "returned" or "raised"
    callResult,    \* remote call: the text returned or the message raised
    response,      \* remote call: what the service answered to the last request
    todo,          \* file loops: the files the glob has still to yield
    fileText,      \* file loops: the text of each challenge file
    solution,      \* generate_solutions: each solution file, <<>> when absent
    challenges,    \* generate_solutions: the sections of the current file
    all_solutions, \* generate_solutions: the blocks built so far
    contacted,     \* file loops: files for which a request was sent
    outcome,       \* correct_sample_code: how each file's call ended
    initial        \* the file system as it was when the script started

parseVars == <<content, header, results>>
callVars == <<attempt, requests, nsleeps, slept, callState, callResult, response>>
fileVars == <<todo, fileText, solution, challenges, all_solutions, contacted, outcome,
              initial>>
vars == <<script, pc, content, header, results, attempt, requests, nsleeps, slept,
          callState, callResult, response, todo, fileText, solution, challenges, all_solutions,
          contacted, outcome, initial>>

\* ------------------------------------------------------------------ bounds

MaxLines == 3
MaxBody == 5
MaxPart == 2
MaxRequests == 11
MaxSections == 2
JitterRes == 2

\* ------------------------------------------------------------ text helpers

RECURSIVE SeqsUpTo(_, _)
SeqsUpTo(S, n) ==
    IF n = 0 THEN {<<>>}
    ELSE LET shorter == SeqsUpTo(S, n - 1)
         IN  shorter \cup {Append(t, c) : t \in {u \in shorter : Len(u) = n - 1}, c \in S}

IsSpace(c) == c \in {"n", "s"}

RECURSIVE LStrip(_)
LStrip(t) == IF t # <<>> /\ IsSpace(Head(t)) THEN LStrip(Tail(t)) ELSE t

RECURSIVE RStrip(_)
RStrip(t) ==
    IF t # <<>> /\ IsSpace(t[Len(t)]) THEN RStrip(SubSeq(t, 1, Len(t) - 1)) ELSE t

\* str.strip()
Strip(t) == RStrip(LStrip(t))

\* Whether pat occurs in t at position i.
OccursAt(t, pat, i) ==
    /\ i >= 1
    /\ i + Len(pat) - 1 <= Len(t)
    /\ SubSeq(t, i, i + Len(pat) - 1) = pat

\* str.replace(pat, ""), pat not empty: every occurrence, left to right.
RECURSIVE Remove(_, _)
Remove(t, pat) ==
    IF Len(t) < Len(pat) THEN t
    ELSE IF OccursAt(t, pat, 1)
         THEN Remove(SubSeq(t, Len(pat) + 1, Len(t)), pat)
         ELSE <<Head(t)>> \o Remove(Tail(t), pat)

\* ------------------------------------------- extract_challenges_from_markdown

\* "^" under re.MULTILINE: the start of the text or just after a newline.
AtLineStartNoMultiline(t, i) == i = 1
AtLineStart(t, i) == i = 1 \/ t[i - 1] = "n"

\* r"^## (Challenge \d+: .+)" matches at position i.
HeadingAt(t, i) ==
    /\ i + 2 <= Len(t)
    /\ AtLineStart(t, i)
    /\ t[i] = "H"
    /\ t[i + 1] = "s"
    /\ t[i + 2] # "n"

\* Where the greedy ".+" of a match starting at i ends: the end of the line.
RECURSIVE LineEnd(_, _)
LineEnd(t, i) == IF i < Len(t) /\ t[i + 1] # "n" THEN LineEnd(t, i + 1) ELSE i

\* The capture group of a match from i to e.
Group(t, i, e) == <<"C">> \o SubSeq(t, i + 1, e)

\* re.split(r"^## (Challenge \d+: .+)", content, flags=re.MULTILINE), scanning
\* from position i with the current piece starting at start.
RECURSIVE SplitFrom(_, _, _)
SplitFrom(t, start, i) ==
    IF i > Len(t) THEN <<SubSeq(t, start, Len(t))>>
    ELSE IF HeadingAt(t, i)
         THEN LET e == LineEnd(t, i)
              IN  <<SubSeq(t, start, i - 1), Group(t, i, e)>> \o SplitFrom(t, e + 1, e + 1)
         ELSE SplitFrom(t, start, i + 1)

SplitHeadings(t) == SplitFrom(t, 1, 1)

\* Position of the first "```python" in t, 0 when there is none.
RECURSIVE FindFrom(_, _, _)
FindFrom(t, pat, i) ==
    IF i + Len(pat) - 1 > Len(t) THEN 0
    ELSE IF OccursAt(t, pat, i) THEN i
    ELSE FindFrom(t, pat, i + 1)

Find(t, pat) == FindFrom(t, pat, 1)

\* re.split(r"```python", body, maxsplit=1)
SplitFence(body) ==
    LET i == Find(body, <<"F", "P">>)
    IN  IF i = 0 THEN <<body>>
        ELSE <<SubSeq(body, 1, i - 1), SubSeq(body, i + 2, Len(body))>>

\* re.search(r"(.*?)```", parts[1], re.DOTALL) and group(1).strip(); "" when
\* there is no match.
CodeOf(rest) ==
    LET j == Find(rest, <<"F">>)
    IN  IF j = 0 THEN <<>> ELSE Strip(SubSeq(rest, 1, j - 1))

\* One iteration of the loop of build-code-exercises.py.
SectionExercises(rawTitle, rawBody) ==
    LET title == Strip(rawTitle)
        body == Strip(rawBody)
        parts == SplitFence(body)
        description == Strip(parts[1])
        code == IF Len(parts) > 1 THEN CodeOf(parts[2]) ELSE <<>>
    IN  [title |-> title, description |-> description, code |-> code]

\* One iteration of the loop of build_code_challenges.py.
SectionChallenges(rawTitle, rawBody) ==
    LET title == Strip(rawTitle)
        body == Strip(rawBody)
        parts == SplitFence(body)
        code == IF Len(parts) > 1 THEN CodeOf(parts[2]) ELSE <<>>
        description ==
            Strip(Remove(body, <<"n", "F", "P", "n">> \o code \o <<"n", "F", "n">>))
    IN  [title |-> title, description |-> description, code |-> code]

ExtractHeader(t) == Strip(SplitHeadings(t)[1])

ExtractExercises(t) ==
    LET pieces == SplitHeadings(t)
    IN  [k \in 1..((Len(pieces) - 1) \div 2) |->
            SectionExercises(pieces[2 * k], pieces[2 * k + 1])]

ExtractChallenges(t) ==
    LET pieces == SplitHeadings(t)
    IN  [k \in 1..((Len(pieces) - 1) \div 2) |->
            SectionChallenges(pieces[2 * k], pieces[2 * k + 1])]

\* The raw (stripped) body of each section, as both scripts compute it.
Bodies(t) ==
    LET pieces == SplitHeadings(t)
    IN  [k \in 1..((Len(pieces) - 1) \div 2) |-> Strip(pieces[2 * k + 1])]

\* No remote call is in progress.
CallIdle ==
    /\ attempt = 0
    /\ requests = 0
    /\ nsleeps = 0
    /\ slept = 0
    /\ callState = "idle"
    /\ callResult = ""
    /\ response = "none"

\* --------------------------------------------------------- parser scripts

\* The shapes of a line: no heading, a heading, and near misses of a heading
\* (nothing after the space, no space, not at the start of the line).
LineShapes ==
    {<<>>, <<"a">>, <<"s", "a", "s">>,
     <<"H", "s", "a">>, <<"H", "s", "a", "s">>, <<"H", "s", "s">>,
     <<"H", "s">>, <<"H", "a">>, <<"a", "H", "s", "a">>, <<"s", "H", "s", "a">>}

\* "\n".join(ls)
RECURSIVE Join(_)
Join(ls) ==
    IF Len(ls) = 1 THEN ls[1] ELSE ls[1] \o <<"n">> \o Join(Tail(ls))

\* Documents of up to MaxLines lines.
SplitDocs == {Join(ls) : ls \in SeqsUpTo(LineShapes, MaxLines) \ {<<>>}}
FenceDocs == {<<"H", "s", "a", "n">> \o b : b \in SeqsUpTo({"n", "s", "a", "F", "P"}, MaxBody)}

\* A section whose body holds a well-formed fenced block, each fence on a line
\* of its own, with text before, inside and after it.
BlockDocs ==
    LET Parts == SeqsUpTo({"n", "a"}, MaxPart)
    IN  {<<"H", "s", "a", "n">> \o pre \o <<"n", "F", "P", "n">> \o code
             \o <<"n", "F">> \o post : pre \in Parts, code \in Parts, post \in Parts}

InitParse ==
    /\ script \in {"exercises", "challenges"}
    /\ pc = "read"
    /\ content \in SplitDocs \cup FenceDocs \cup BlockDocs
    /\ header = <<>>
    /\ results = <<>>
    /\ CallIdle
    /\ todo = <<>>
    /\ fileText = <<>>
    /\ solution = <<>>
    /\ challenges = <<>>
    /\ all_solutions = <<>>
    /\ contacted = {}
    /\ outcome = <<>>
    /\ initial = <<>>

\* build-code-exercises.py: convert_to_python_file calls the parser.
ParseExercises ==
    /\ script = "exercises"
    /\ pc = "read"
    /\ header' = ExtractHeader(content)
    /\ results' = ExtractExercises(content)
    /\ pc' = "parsed"
    /\ UNCHANGED <<script, content, callVars, fileVars>>

\* build_code_challenges.py: convert_to_python_file calls the parser.
ParseChallenges ==
    /\ script = "challenges"
    /\ pc = "read"
    /\ header' = ExtractHeader(content)
    /\ results' = ExtractChallenges(content)
    /\ pc' = "parsed"
    /\ UNCHANGED <<script, content, callVars, fileVars>>

NextParse == ParseExercises \/ ParseChallenges

SpecParse == InitParse /\ [][NextParse]_vars

\* ----------------------------------------------------- retrying remote call

\* Local constants of correct_sample_code and generate_solution.
initial_delay == 5
max_retries == 10
max_delay == 60

\* Time is counted in ticks, JitterRes of them to the second: random.uniform(0, 1)
\* yields one of the values 0, 1/JitterRes, ..., (JitterRes - 1)/JitterRes.
Jitter == 0..(JitterRes - 1)

RECURSIVE Pow2(_)
Pow2(k) == IF k = 0 THEN 1 ELSE 2 * Pow2(k - 1)

Min(x, y) == IF x <= y THEN x ELSE y

\* min(initial_delay * (2 ** attempt), max_delay) + random.uniform(0, 1), in ticks.
DelayUncapped(a, j) == initial_delay * Pow2(a) * JitterRes + j
Delay(a, j) == Min(initial_delay * Pow2(a), max_delay) * JitterRes + j

\* The non-empty text the service generates from the prompt built for file f.
AnswerFor(f) == IF f = "f1" THEN "t1" ELSE "t2"

\* An errors.APIError: message and status are empty, hold "429" or hold
\* something else.
ApiErrors == [message : {"", "429", "500"}, status : {"", "429", "500"}]

\* What the service meant by an error: a rate limit when "429" is in its
\* message or in its status.
ResponseKind(e) == IF "429" \in {e.message, e.status} THEN "429" ELSE "error"

\* (e.message and "429" in e.message) or (e.status and "429" in e.status)
IsRateLimit(e) ==
    \/ (e.message # "" /\ e.message = "429")
    \/ (e.status # "" /\ e.status = "429")

\* The ceiling test of correct_sample_code: attempt >= max_retries.
CeilingReachedOffByOne(a) == a > max_retries
CeilingReached(a) == a >= max_retries

\* The function is entered: its locals are initialised.
EnterCall ==
    /\ attempt' = 0
    /\ requests' = 0
    /\ nsleeps' = 0
    /\ slept' = 0
    /\ callState' = "running"
    /\ callResult' = ""
    /\ response' = "none"

\* The caller has taken the result: the locals are gone.
LeaveCall ==
    /\ attempt' = 0
    /\ requests' = 0
    /\ nsleeps' = 0
    /\ slept' = 0
    /\ callState' = "idle"
    /\ callResult' = ""
    /\ response' = "none"

\* The file whose processing is under way.
Current == Head(todo)

\* One request is sent (the model stops sending at MaxRequests).
SendRequest ==
    /\ pc = "call"
    /\ callState = "running"
    /\ requests < MaxRequests
    /\ requests' = requests + 1
    /\ contacted' = contacted \cup {Current}

\* response.text is not empty: return response.text
ReturnText ==
    /\ SendRequest
    /\ callResult' = AnswerFor(Current)
    /\ response' = "text"
    /\ callState' = "returned"
    /\ UNCHANGED <<attempt, nsleeps, slept>>

\* response.text is empty: the Exception is no APIError and leaves the function.
RaiseEmptyRetried ==
    /\ SendRequest
    /\ response' = "empty"
    /\ UNCHANGED <<attempt, nsleeps, slept, callState, callResult>>
RaiseEmpty ==
    /\ SendRequest
    /\ response' = "empty"
    /\ callResult' = IF script = "correct" THEN "Empty response from API"
                     ELSE "Empty respones from API"
    /\ callState' = "raised"
    /\ UNCHANGED <<attempt, nsleeps, slept>>

\* An APIError that is not a rate limit is raised again.
RaiseApiError ==
    /\ SendRequest
    /\ \E e \in ApiErrors :
        /\ ~IsRateLimit(e)
        /\ response' = ResponseKind(e)
    /\ callResult' = "APIError"
    /\ callState' = "raised"
    /\ UNCHANGED <<attempt, nsleeps, slept>>

\* correct_sample_code, a rate-limited request: sleep, count the attempt and
\* give up at the ceiling.
CorrectRateLimited ==
    /\ script = "correct"
    /\ SendRequest
    /\ \E e \in ApiErrors, j \in Jitter :
        /\ IsRateLimit(e)
        /\ slept' = slept + Delay(attempt, j)
        /\ response' = ResponseKind(e)
    /\ nsleeps' = nsleeps + 1
    /\ attempt' = attempt + 1
    /\ IF CeilingReached(attempt + 1)
       THEN callState' = "raised" /\ callResult' = "Max retries reached for 429 errors"
       ELSE UNCHANGED <<callState, callResult>>

\* generate_solution, a rate-limited request: sleep and count the attempt.
GenerateRateLimited ==
    /\ script = "generate"
    /\ SendRequest
    /\ \E e \in ApiErrors, j \in Jitter :
        /\ IsRateLimit(e)
        /\ slept' = slept + Delay(attempt, j)
        /\ response' = ResponseKind(e)
    /\ nsleeps' = nsleeps + 1
    /\ attempt' = attempt + 1
    /\ UNCHANGED <<callState, callResult>>

\* ------------------------------------------------ correct_sample_code.main

Files == <<"f1", "f2">>
FileSet == {Files[i] : i \in 1..Len(Files)}

\* The text of a challenge file before the script runs.
Original(f) == IF f = Files[1] THEN "o1" ELSE "o2"

InitCorrect ==
    /\ script = "correct"
    /\ pc = "files"
    /\ content = <<>>
    /\ header = <<>>
    /\ results = <<>>
    /\ CallIdle
    /\ todo = Files
    /\ fileText = [f \in FileSet |-> Original(f)]
    /\ solution = <<>>
    /\ challenges = <<>>
    /\ all_solutions = <<>>
    /\ contacted = {}
    /\ outcome = [f \in FileSet |-> [state |-> "none", result |-> ""]]
    /\ initial = fileText

\* The loop takes the next file, reads it and calls correct_sample_code.
CorrectNextFile ==
    /\ script = "correct"
    /\ pc = "files"
    /\ todo # <<>>
    /\ EnterCall
    /\ pc' = "call"
    /\ UNCHANGED <<script, parseVars, fileVars>>

\* The call returned: the file is replaced by the corrected text.
CorrectUpdate ==
    /\ script = "correct"
    /\ pc = "call"
    /\ callState = "returned"
    /\ fileText' = [fileText EXCEPT ![Current] = callResult]
    /\ outcome' = [outcome EXCEPT ![Current] = [state |-> callState, result |-> callResult]]
    /\ todo' = Tail(todo)
    /\ LeaveCall
    /\ pc' = "files"
    /\ UNCHANGED <<script, parseVars, solution, challenges, all_solutions, contacted,
                   initial>>

\* The call raised: the failure is printed and the loop continues.
CorrectFailedAborts ==
    /\ script = "correct"
    /\ pc = "call"
    /\ callState = "raised"
    /\ outcome' = [outcome EXCEPT ![Current] = [state |-> callState, result |-> callResult]]
    /\ todo' = <<>>
    /\ LeaveCall
    /\ pc' = "files"
    /\ UNCHANGED <<script, parseVars, fileText, solution, challenges, all_solutions,
                   contacted, initial>>
CorrectFailed ==
    /\ script = "correct"
    /\ pc = "call"
    /\ callState = "raised"
    /\ outcome' = [outcome EXCEPT ![Current] = [state |-> callState, result |-> callResult]]
    /\ todo' = Tail(todo)
    /\ LeaveCall
    /\ pc' = "files"
    /\ UNCHANGED <<script, parseVars, fileText, solution, challenges, all_solutions,
                   contacted, initial>>

\* The glob is exhausted.
CorrectDone ==
    /\ script = "correct"
    /\ pc = "files"
    /\ todo = <<>>
    /\ pc' = "done"
    /\ UNCHANGED <<script, parseVars, callVars, fileVars>>

\* The steps of a call: what they leave alone outside the call.
CallFrame == UNCHANGED <<script, pc, parseVars, todo, fileText, solution, challenges,
                         all_solutions, outcome, initial>>

NextCorrect ==
    \/ CorrectNextFile
    \/ (script = "correct" /\ ReturnText /\ CallFrame)
    \/ (script = "correct" /\ RaiseEmpty /\ CallFrame)
    \/ (script = "correct" /\ RaiseApiError /\ CallFrame)
    \/ (CorrectRateLimited /\ CallFrame)
    \/ CorrectUpdate
    \/ CorrectFailed
    \/ CorrectDone

SpecCorrect == InitCorrect /\ [][NextCorrect]_vars

\* ------------------------------------------------------ split_challenges

\* The last position of the run of whitespace that starts at p (p - 1 when the
\* run is empty).
RECURSIVE RunEnd(_, _)
RunEnd(t, p) == IF p <= Len(t) /\ IsSpace(t[p]) THEN RunEnd(t, p + 1) ELSE p - 1

\* Where r"\s*\n" ends when it starts at p: the last newline of the run of
\* whitespace there, 0 when the run holds none.
LastNewline(t, p) ==
    LET e == RunEnd(t, p)
    IN  IF \E q \in p..e : t[q] = "n"
        THEN CHOOSE q \in p..e : t[q] = "n" /\ \A m \in (q + 1)..e : t[m] # "n"
        ELSE 0

\* The length of the lazy "(.+?)" of a match that starts at i, at least h;
\* 0 when there is no match.
RECURSIVE HeadingLen(_, _, _)
HeadingLen(t, i, h) ==
    IF i + h > Len(t) THEN 0
    ELSE IF LastNewline(t, i + h + 1) # 0 THEN h
    ELSE HeadingLen(t, i, h + 1)

\* Where the lazy "(.*?)" that starts at e stops: the first position at which
\* the lookahead r"(?=^## |\Z)" holds.
RECURSIVE BodyEnd(_, _)
BodyEnd(t, e) ==
    IF e > Len(t) \/ (AtLineStart(t, e) /\ t[e] = "#") THEN e ELSE BodyEnd(t, e + 1)

\* pattern.findall(md_text) from position i, each match as (heading, content),
\* both stripped.
RECURSIVE FindAllFrom(_, _)
FindAllFrom(t, i) ==
    IF i > Len(t) THEN <<>>
    ELSE IF AtLineStart(t, i) /\ t[i] = "#" /\ HeadingLen(t, i, 1) # 0
         THEN LET h == HeadingLen(t, i, 1)
                  w == LastNewline(t, i + h + 1)
                  e == BodyEnd(t, w + 1)
              IN  <<[heading |-> Strip(SubSeq(t, i + 1, i + h)),
                     content |-> Strip(SubSeq(t, w + 1, e - 1))]>> \o FindAllFrom(t, e)
         ELSE FindAllFrom(t, i + 1)

split_challenges(md_text) == FindAllFrom(md_text, 1)

\* ------------------------------------------------- generate_solutions.main

\* A challenge document: a title line, then k sections, the i-th under a
\* heading of i characters with a space after it, then a last heading line
\* that no newline ends (the pattern does not match it).
RECURSIVE Repeat(_, _)
Repeat(c, k) == IF k = 0 THEN <<>> ELSE <<c>> \o Repeat(c, k - 1)

RECURSIVE SectionsText(_, _)
SectionsText(i, k) ==
    IF i > k THEN <<>>
    ELSE <<"#">> \o Repeat("a", i) \o <<"s", "n", "a", "n">> \o SectionsText(i + 1, k)

MdDocs == {<<"a", "n">> \o SectionsText(1, k) \o <<"#", "a">> : k \in 0..MaxSections}

\* A solution file that exists before the script runs.
OldSolution == <<[heading |-> <<"a">>, failed |-> FALSE, text |-> "old"]>>

InitGenerate ==
    /\ script = "generate"
    /\ pc = "files"
    /\ content = <<>>
    /\ header = <<>>
    /\ results = <<>>
    /\ CallIdle
    /\ todo = Files
    /\ fileText \in [FileSet -> MdDocs]
    /\ solution \in [FileSet -> {<<>>, <<OldSolution>>}]
    /\ challenges = <<>>
    /\ all_solutions = <<>>
    /\ contacted = {}
    /\ outcome = <<>>
    /\ initial = solution

\* solution_file.exists()
SolutionExistsNever(f) == FALSE
SolutionExists(f) == solution[f] # <<>>

\* The solution file exists: the challenge file is skipped.
GenerateSkip ==
    /\ script = "generate"
    /\ pc = "files"
    /\ todo # <<>>
    /\ SolutionExists(Current)
    /\ todo' = Tail(todo)
    /\ UNCHANGED <<script, pc, parseVars, callVars, fileText, solution, challenges,
                   all_solutions, contacted, outcome, initial>>

\* The challenge file is read and split.
GenerateRead ==
    /\ script = "generate"
    /\ pc = "files"
    /\ todo # <<>>
    /\ ~SolutionExists(Current)
    /\ challenges' = split_challenges(fileText[Current])
    /\ all_solutions' = <<>>
    /\ pc' = "sections"
    /\ UNCHANGED <<script, parseVars, callVars, todo, fileText, solution, contacted,
                   outcome, initial>>

\* The loop over the sections takes the next one and calls generate_solution.
GenerateNextSection ==
    /\ script = "generate"
    /\ pc = "sections"
    /\ Len(all_solutions) < Len(challenges)
    /\ EnterCall
    /\ pc' = "call"
    /\ UNCHANGED <<script, parseVars, fileVars>>

\* The section whose solution is being generated.
Section == challenges[Len(all_solutions) + 1]

\* generate_solution returned: the text is wrapped under the heading.
GenerateWrap ==
    /\ script = "generate"
    /\ pc = "call"
    /\ callState = "returned"
    /\ all_solutions' = Append(all_solutions,
           [heading |-> Section.heading, failed |-> FALSE, text |-> callResult])
    /\ LeaveCall
    /\ pc' = "sections"
    /\ UNCHANGED <<script, parseVars, todo, fileText, solution, challenges, contacted,
                   outcome, initial>>

\* generate_solution raised: "Failed to generate solution: <reason>" is wrapped
\* under the heading.
GenerateWrapFailureDropped ==
    /\ script = "generate"
    /\ pc = "call"
    /\ callState = "raised"
    /\ challenges' = SubSeq(challenges, 1, Len(all_solutions))
    /\ LeaveCall
    /\ pc' = "sections"
    /\ UNCHANGED <<script, parseVars, todo, fileText, solution, all_solutions, contacted,
                   outcome, initial>>
GenerateWrapFailure ==
    /\ script = "generate"
    /\ pc = "call"
    /\ callState = "raised"
    /\ all_solutions' = Append(all_solutions,
           [heading |-> Section.heading, failed |-> TRUE, text |-> callResult])
    /\ LeaveCall
    /\ pc' = "sections"
    /\ UNCHANGED <<script, parseVars, todo, fileText, solution, challenges, contacted,
                   outcome, initial>>

\* Every section is done: the solution file is written.
GenerateWrite ==
    /\ script = "generate"
    /\ pc = "sections"
    /\ Len(all_solutions) = Len(challenges)
    /\ solution' = [solution EXCEPT ![Current] = <<all_solutions>>]
    /\ todo' = Tail(todo)
    /\ pc' = "files"
    /\ UNCHANGED <<script, parseVars, callVars, fileText, challenges, all_solutions,
                   contacted, outcome, initial>>

\* The glob is exhausted.
GenerateDone ==
    /\ script = "generate"
    /\ pc = "files"
    /\ todo = <<>>
    /\ pc' = "done"
    /\ UNCHANGED <<script, parseVars, callVars, fileVars>>

NextGenerate ==
    \/ GenerateSkip
    \/ GenerateRead
    \/ GenerateNextSection
    \/ (script = "generate" /\ ReturnText /\ CallFrame)
    \/ (script = "generate" /\ RaiseEmpty /\ CallFrame)
    \/ (script = "generate" /\ RaiseApiError /\ CallFrame)
    \/ (GenerateRateLimited /\ CallFrame)
    \/ GenerateWrap
    \/ GenerateWrapFailure
    \/ GenerateWrite
    \/ GenerateDone

SpecGenerate == InitGenerate /\ [][NextGenerate]_vars

\* ------------------------------------------------- both remote-call scripts

InitRemote == InitCorrect \/ InitGenerate

NextRemote == NextCorrect \/ NextGenerate

SpecRemote == InitRemote /\ [][NextRemote]_vars

\* correct_sample_code.py runs on one thread and every request is answered:
\* the script takes its next step whenever it has one.
FairSpecCorrect == SpecCorrect /\ WF_vars(NextCorrect)

\* ------------------------------------------------------------ all scripts

Init == InitParse \/ InitCorrect \/ InitGenerate

Next == NextParse \/ NextCorrect \/ NextGenerate

Spec == Init /\ [][Next]_vars

\* ------------------------------------------------------------------ C1

\* The lines of a text: str.split("\n").
RECURSIVE C1_Lines(_, _)
C1_Lines(t, cur) ==
    IF t = <<>> THEN <<cur>>
    ELSE IF Head(t) = "n" THEN <<cur>> \o C1_Lines(Tail(t), <<>>)
    ELSE C1_Lines(Tail(t), Append(cur, Head(t)))

\* A line of the form "## Challenge <digits>: <text>".
C1_IsHeadingLine(l) == Len(l) >= 3 /\ l[1] = "H" /\ l[2] = "s"

\* The trimmed heading text of every heading line, in document order.
RECURSIVE C1_Titles(_)
C1_Titles(ls) ==
    IF ls = <<>> THEN <<>>
    ELSE (IF C1_IsHeadingLine(Head(ls))
          THEN <<Strip(<<"C">> \o Tail(Head(ls)))>>
          ELSE <<>>) \o C1_Titles(Tail(ls))

\* The text of the lines before the first heading line.
RECURSIVE C1_Before(_)
C1_Before(ls) ==
    IF ls = <<>> \/ C1_IsHeadingLine(Head(ls)) THEN <<>>
    ELSE Head(ls) \o <<"n">> \o C1_Before(Tail(ls))

\* C1: for a document with N lines of the form "## Challenge <digits>: <text>",
\* the parser returns exactly N sections, the i-th section carries the trimmed
\* heading text of the i-th such line, and the header is the trimmed text
\* before the first such line.
C1_SectionsMatchHeadingLines ==
    pc = "parsed" =>
        LET ls == C1_Lines(content, <<>>)
            titles == C1_Titles(ls)
        IN  /\ Len(results) = Len(titles)
            /\ \A k \in 1..Len(results) : results[k].title = titles[k]
            /\ header = Strip(C1_Before(ls))

\* Two sections, text before the first heading line, and a line that holds the
\* heading text but not at its start.
C1_Witness ==
    /\ pc = "parsed"
    /\ Len(results) = 2
    /\ \E i \in 2..Len(content) : content[i] = "H" /\ content[i - 1] # "n"

\* ------------------------------------------------------------------ C2

\* Position of the first closing fence after an opening fence at i, 0 if none.
C2_Close(b, i) ==
    IF \E j \in (i + 2)..Len(b) : b[j] = "F"
    THEN CHOOSE j \in (i + 2)..Len(b) : b[j] = "F" /\ \A m \in (i + 2)..(j - 1) : b[m] # "F"
    ELSE 0

\* Position of the first opening fence, 0 if none.
C2_Open(b) ==
    IF \E i \in 1..(Len(b) - 1) : b[i] = "F" /\ b[i + 1] = "P"
    THEN CHOOSE i \in 1..(Len(b) - 1) :
             /\ b[i] = "F" /\ b[i + 1] = "P"
             /\ \A m \in 1..(i - 1) : ~(b[m] = "F" /\ b[m + 1] = "P")
    ELSE 0

\* Whether pat occurs somewhere in t.
C2_Contains(t, pat) == \E i \in 1..(Len(t) + 1) : OccursAt(t, pat, i)

\* A description that holds neither the opening delimiter nor the block.
C2_Clean(d, b) ==
    LET i == C2_Open(b)
        j == IF i = 0 THEN 0 ELSE C2_Close(b, i)
    IN  j # 0 => /\ ~C2_Contains(d, <<"F", "P">>)
                 /\ ~C2_Contains(d, SubSeq(b, i, j))

\* C2: in both scripts and for every section body, a body that ends with its
\* fenced block included, the description holds neither the fence delimiters
\* of the extracted block nor the extracted code.
C2_DescriptionExcludesFence ==
    pc = "parsed" =>
        \A k \in 1..Len(results) : C2_Clean(results[k].description, Bodies(content)[k])

\* ------------------------------------------------------------------ C3

\* The reference (description, code) of a section body; a body whose fence is
\* never closed holds no fenced block and is left to the implementation.
C3_Reference(b, r) ==
    LET i == C2_Open(b)
        j == IF i = 0 THEN 0 ELSE C2_Close(b, i)
    IN  IF i = 0 THEN r.code = <<>> /\ r.description = b
        ELSE j # 0 => /\ r.description = Strip(SubSeq(b, 1, i - 1))
                      /\ r.code = Strip(SubSeq(b, i + 2, j - 1))

\* C3: in both scripts the (description, code) of every section equals the
\* reference: without a fence the code is empty and the description is the
\* whole trimmed body; with one the code is the trimmed inside of the first
\* block and the description the trimmed text before the fence.
C3_DescriptionCodeReference ==
    pc = "parsed" =>
        \A k \in 1..Len(results) : C3_Reference(Bodies(content)[k], results[k])

\* ------------------------------------------------------------------ C4

\* min(5 * 2^i, 60), the i-th backoff interval in seconds.
C4_Base(i) == IF i >= 4 THEN 60 ELSE 5 * (2 ^ i)

RECURSIVE C4_BaseSum(_)
C4_BaseSum(k) == IF k = 0 THEN 0 ELSE C4_BaseSum(k - 1) + C4_Base(k - 1)

\* A call that returned after k rate-limited answers returned the text, sent
\* k + 1 requests and slept k times, for the sum of the k intervals plus k
\* jitters; a rate-limited answer below the ceiling leaves the call running.
C4_AtReturn ==
    /\ callState = "returned" =>
        /\ response = "text"
        /\ callResult = AnswerFor(Current)
        /\ requests = attempt + 1
        /\ nsleeps = attempt
        /\ slept >= JitterRes * C4_BaseSum(attempt)
        /\ slept <= JitterRes * C4_BaseSum(attempt) + attempt * (JitterRes - 1)
    /\ response = "429" =>
        \/ callState = "running"
        \/ script = "correct" /\ attempt >= max_retries

\* Every sleep follows one request, and the i-th lasts min(5 * 2^i, 60) plus a
\* jitter in [0, 1): less than 61.
C4_SleepStep ==
    nsleeps' > nsleeps =>
        /\ nsleeps' = nsleeps + 1
        /\ requests' = requests + 1
        /\ slept' - slept >= JitterRes * C4_Base(nsleeps)
        /\ slept' - slept < JitterRes * (C4_Base(nsleeps) + 1)
        /\ slept' - slept < JitterRes * 61

\* C4: at both call sites, k rate-limited answers followed by a non-empty text
\* return that text after exactly k + 1 requests and k sleeps, one sleep after
\* each rate-limited request; the i-th sleep lasts min(5 * 2^i, 60) plus a
\* jitter in [0, 1), the time waited is the sum of the k intervals, and no
\* sleep exceeds 61.
C4_BackoffOnSuccess == [](C4_AtReturn) /\ [][C4_SleepStep]_vars

\* generate_solution returns after six rate-limited answers, the last two
\* sleeps capped at max_delay.
C4_Witness ==
    /\ script = "generate"
    /\ callState = "returned"
    /\ attempt = 6
    /\ slept > JitterRes * C4_BaseSum(6)

\* ------------------------------------------------------------------ C5

\* An empty text or an error that is no rate limit ends the call: the attempt
\* that failed is the last request, slept nothing and was not counted.
C5_FailsAtOnce ==
    response \in {"empty", "error"} =>
        /\ callState = "raised"
        /\ requests = attempt + 1
        /\ nsleeps = attempt
        /\ slept <= JitterRes * C4_BaseSum(attempt) + attempt * (JitterRes - 1)

\* Once the call has raised it sends nothing and sleeps no more.
C5_Stopped ==
    callState = "raised" =>
        \/ callState' = "idle"
        \/ requests' = requests /\ nsleeps' = nsleeps /\ attempt' = attempt

\* C5: at both call sites an attempt that ends in an API error without "429"
\* in message and status, or in an empty response text, makes the call fail at
\* once, on the first attempt or after rate-limited retries: no further request,
\* no sleep, and the attempt counter is not advanced.
C5_NonRetryableFailsAtOnce == [](C5_FailsAtOnce) /\ [][C5_Stopped]_vars

\* An empty response after three rate-limited attempts.
C5_Witness ==
    /\ response = "empty"
    /\ callState = "raised"
    /\ attempt = 3

\* ------------------------------------------------------------------ C6

\* correct_sample_code never sends more than max_retries requests, and max_retries
\* rate-limited answers end it with "Max retries reached for 429 errors".
C6_Ceiling ==
    script = "correct" =>
        /\ requests <= max_retries
        /\ attempt <= max_retries
        /\ (attempt = max_retries =>
                /\ callState = "raised"
                /\ callResult = "Max retries reached for 429 errors"
                /\ requests = max_retries)

\* C6: correct_sample_code terminates for every sequence of answers, sends at
\* most max_retries (10) requests, and ends in "Max retries reached for 429
\* errors" when every request is rate-limited, without an 11th request.
C6_CeilingAndTermination == [](C6_Ceiling) /\ <>(pc = "done")

\* The tenth request was rate-limited too.
C6_Witness ==
    /\ script = "correct"
    /\ callState = "raised"
    /\ callResult = "Max retries reached for 429 errors"
    /\ requests = 10

\* ------------------------------------------------------------------ C7

\* What split_challenges returns for each challenge document.
C7_Sections == [d \in MdDocs |-> split_challenges(d)]

\* The blocks correspond to the first sections of the document, in order.
C7_BlocksFollow(blocks, sections, f, whole) ==
    /\ Len(blocks) <= Len(sections)
    /\ whole => Len(blocks) = Len(sections)
    /\ \A k \in 1..Len(blocks) :
        /\ blocks[k].heading = sections[k].heading
        /\ blocks[k].failed =>
               blocks[k].text \in {"Empty respones from API", "APIError"}
        /\ ~blocks[k].failed => blocks[k].text = AnswerFor(f)

\* C7: when generate_solution raises for a section, the failure text is that
\* section's content and the loop goes on; the solution file written holds
\* exactly one block per section that split_challenges returns, in the order
\* of the document.
C7_OneBlockPerSection ==
    script = "generate" =>
        \A f \in FileSet :
            /\ (pc \in {"sections", "call"} /\ f = Current) =>
                   C7_BlocksFollow(all_solutions, C7_Sections[fileText[f]], f, FALSE)
            /\ (initial[f] = <<>> /\ solution[f] # <<>>) =>
                   C7_BlocksFollow(solution[f][1], C7_Sections[fileText[f]], f, TRUE)

\* A file written with two blocks, the first one a failure.
C7_Witness ==
    /\ script = "generate"
    /\ \E f \in FileSet :
        /\ initial[f] = <<>>
        /\ solution[f] # <<>>
        /\ Len(solution[f][1]) = 2
        /\ solution[f][1][1].failed
        /\ ~solution[f][1][2].failed

\* ------------------------------------------------------------------ C8

\* C8: a challenge file whose solution file exists already gets no remote
\* request and its solution file stays as it was; the challenge files without
\* a solution file are processed all the same.
C8_ExistingSolutionSkipped ==
    script = "generate" =>
        /\ \A f \in FileSet :
               initial[f] # <<>> => f \notin contacted /\ solution[f] = initial[f]
        /\ pc = "done" => \A f \in FileSet : solution[f] # <<>>

\* The first file was skipped and the second one processed with requests.
C8_Witness ==
    /\ script = "generate"
    /\ pc = "done"
    /\ initial[Files[1]] # <<>>
    /\ initial[Files[2]] = <<>>
    /\ Files[2] \in contacted
    /\ Len(solution[Files[2]][1]) = 2

\* ------------------------------------------------------------------ C9

\* C9: in solution generation a section that is rate-limited on every attempt is
\* retried only up to the ceiling and then given up for that section: after
\* max_retries rate-limited attempts generate_solution has raised, and it
\* never sends more than max_retries requests.
C9_GenerateGivesUpAtCeiling ==
    script = "generate" =>
        /\ attempt >= max_retries => callState = "raised"
        /\ requests <= max_retries

\* ------------------------------------------------------------------ C10

\* C10: a challenge file is overwritten only with the non-empty text that the
\* call for that file returned; when the call fails the file keeps its text and
\* the loop goes on, so that every file gets its own call.
C10_OnlySuccessOverwrites ==
    script = "correct" =>
        /\ \A f \in FileSet :
            /\ outcome[f].state = "returned" =>
                   fileText[f] = outcome[f].result /\ outcome[f].result = AnswerFor(f)
            /\ outcome[f].state # "returned" => fileText[f] = initial[f]
        /\ pc = "done" => \A f \in FileSet : outcome[f].state # "none"

\* The first file's call failed and the second file was updated.
C10_Witness ==
    /\ script = "correct"
    /\ pc = "done"
    /\ outcome[Files[1]].state = "raised"
    /\ fileText[Files[1]] = "o1"
    /\ outcome[Files[2]].state = "returned"
    /\ fileText[Files[2]] = "t2"

====
